---- MODULE Spec2Model ----
(***************************************************************************)
(* Model of the polymer assembly engine of LogP/MakePolymer.py.            *)
(*                                                                         *)
(* Notation (SMILES) strings are sequences of one-character strings.       *)
(* Python values that can be of several types are tagged records:          *)
(*   [t |-> "str", s |-> <<...>>]          a str                           *)
(*   [t |-> "mol", id, atoms, bonds, notes] an rdkit Mol object            *)
(*   [t |-> "none"]                         None                           *)
(* Atom indices are 1-based here; index k is rdkit's index k-1.            *)
(***************************************************************************)
EXTENDS Integers, Sequences, FiniteSets, TLC

VARIABLES
    pc,          \* where the program is
    args,        \* the inputs of the call under check; in main, vardict
    ret,         \* the result of the call under check; in main, the exception raised
    repeat_unit, \* main: repeat_unit
    j,           \* make_One_or_More_Polymers: the loop variable
    proceed,     \* make_One_or_More_Polymers: proceed
    full_smi,    \* make_One_or_More_Polymers: smi / full_smi
    test_smi,    \* make_One_or_More_Polymers: test_smi
    m_per_n,     \* m_per_n / M_PER_N; -1 while the name is unbound
    POL_LIST, SMI_LIST, Unopt_pols,
    calls,       \* the structural calls of the current run, in order
    files,       \* the files of the working directory the program made
    legends,     \* drawPol: the legends of the grid image
    plotN        \* makePlot: the "N" column

dvars == <<repeat_unit, j, proceed, full_smi, test_smi, m_per_n,
           POL_LIST, SMI_LIST, Unopt_pols, calls, files, legends, plotN>>

vars == <<pc, args, ret, dvars>>

(***************************************************************************)
(* Bounds of the checked input spaces.                                     *)
(***************************************************************************)
MaxInatorLen == 3
MaxTokens == 3
MaxEndLen == 2
MaxUnitLen == 2
MaxN == 2
MaxFamily == 3

(***************************************************************************)
(* Characters.                                                             *)
(***************************************************************************)
Marker == "*"
AtomChars == {"C", "O"}
\* a character that makes any fragment holding it unparsable: the model has
\* no "(", so a ")" is always unmatched
BadChar == ")"

RECURSIVE StringsUpTo(_, _)
StringsUpTo(chars, len) ==
    IF len = 0 THEN {<<>>}
    ELSE LET shorter == StringsUpTo(chars, len - 1)
         IN  shorter \cup {Append(s, c) : s \in shorter, c \in chars}

Str(s) == [t |-> "str", s |-> s]
NoneVal == [t |-> "none"]

(***************************************************************************)
(* Python str operations.                                                  *)
(***************************************************************************)
\* s[::-1]
Reverse(s) == [k \in 1..Len(s) |-> s[Len(s) + 1 - k]]

\* c in s
Contains(s, c) == \E k \in 1..Len(s) : s[k] = c

\* s.replace(c, "")
Remove(s, c) == SelectSeq(s, LAMBDA x : x # c)

\* n * s
RECURSIVE Repeat(_, _)
Repeat(n, s) == IF n <= 0 THEN <<>> ELSE s \o Repeat(n - 1, s)

(***************************************************************************)
(* rdkit: Chem.MolFromSmiles on the linear subset of the notation: every   *)
(* character is one atom, bonded to the atom before it; bonds are kept in  *)
(* the order they are added. A fragment with any other character does not  *)
(* parse and the result is None.                                           *)
(***************************************************************************)
Parses(s) == \A k \in 1..Len(s) : s[k] \in AtomChars \cup {Marker}

MolFromSmiles(s, oid) ==
    IF Parses(s)
    THEN [t |-> "mol", id |-> oid,
          atoms |-> s,
          bonds |-> [k \in 1..(Len(s) - 1) |-> <<k, k + 1>>],
          notes |-> [k \in 1..Len(s) |-> ""]]
    ELSE NoneVal

(***************************************************************************)
(* validate_end_group(inator, *, Init, Term): oid is the identity of the   *)
(* Mol object it creates when it creates one.                              *)
(***************************************************************************)
\* variant: the symmetry test is applied to initiators only
validate_end_group_initOnly(inator, Init, Term, oid) ==
    IF ~Init /\ ~Term
    THEN [status |-> "ValueError", msg |-> "role"]
    ELSE IF inator # <<>> /\ inator[IF Init THEN 1 ELSE Len(inator)] = Marker
    THEN [status |-> "ok", value |-> MolFromSmiles(inator, oid)]
    ELSE IF Init /\ inator # Reverse(inator) /\ ~Contains(inator, Marker)
    THEN [status |-> "ValueError", msg |-> "not palindromic"]
    ELSE [status |-> "ok", value |-> Str(Remove(inator, Marker))]

\* variant: the markers are left in the plain text
validate_end_group_noStrip(inator, Init, Term, oid) ==
    IF ~Init /\ ~Term
    THEN [status |-> "ValueError", msg |-> "role"]
    ELSE IF inator # <<>> /\ inator[IF Init THEN 1 ELSE Len(inator)] = Marker
    THEN [status |-> "ok", value |-> MolFromSmiles(inator, oid)]
    ELSE IF inator # Reverse(inator) /\ ~Contains(inator, Marker)
    THEN [status |-> "ValueError", msg |-> "not palindromic"]
    ELSE [status |-> "ok", value |-> Str(inator)]

validate_idx(inator, Init) == IF Init THEN 1 ELSE Len(inator)

validate_end_group(inator, Init, Term, oid) ==
    IF ~Init /\ ~Term
    THEN [status |-> "ValueError", msg |-> "role"]
    ELSE IF inator # <<>> /\ inator[validate_idx(inator, Init)] = Marker
    THEN [status |-> "ok", value |-> MolFromSmiles(inator, oid)]
    ELSE IF inator # Reverse(inator) /\ ~Contains(inator, Marker)
    THEN [status |-> "ValueError", msg |-> "not palindromic"]
    ELSE [status |-> "ok", value |-> Str(Remove(inator, Marker))]

(***************************************************************************)
(* The lookup tables of smiles.py (monomer_dict, init_dict): keys to       *)
(* notation fragments. Keys are strings like every other token.            *)
(***************************************************************************)
KeyA == <<"A">>
KeyB == <<"B">>
KeyH == <<"H">>
KeyE == <<"E">>

monomer_dict == (KeyA :> <<"C", "C">>) @@ (KeyB :> <<"C", "O">>)

init_dict == (KeyH :> <<>>) @@ (KeyE :> <<"O", "C", Marker>>)

\* variant: a key the table lacks is taken as notation
monomer_smi_lookup_orLiteral(m) ==
    [status |-> "ok", value |-> IF m \in DOMAIN monomer_dict THEN monomer_dict[m] ELSE m]

\* monomer_dict[m]: KeyError when m is no key
monomer_smi_lookup(m) ==
    IF m \in DOMAIN monomer_dict
    THEN [status |-> "ok", value |-> monomer_dict[m]]
    ELSE [status |-> "KeyError", msg |-> "monomer_dict"]

inator_smi_lookup(i, t) ==
    <<IF i \in DOMAIN init_dict THEN init_dict[i] ELSE i,
      IF t \in DOMAIN init_dict THEN init_dict[t] ELSE t>>

(***************************************************************************)
(* Python int(x) on a str of the model's characters: the decimal value of  *)
(* a non-empty string of digits, ValueError for every other string.        *)
(***************************************************************************)
DigitValue == ("0" :> 0) @@ ("1" :> 1) @@ ("2" :> 2) @@ ("3" :> 3) @@ ("4" :> 4)
              @@ ("5" :> 5) @@ ("6" :> 6) @@ ("7" :> 7) @@ ("8" :> 8) @@ ("9" :> 9)

IsInt(x) == x # <<>> /\ \A k \in 1..Len(x) : x[k] \in DOMAIN DigitValue

RECURSIVE IntOf(_)
IntOf(x) ==
    IF x = <<>> THEN 0
    ELSE 10 * IntOf(SubSeq(x, 1, Len(x) - 1)) + DigitValue[x[Len(x)]]

RECURSIVE Sum(_)
Sum(q) == IF q = <<>> THEN 0 ELSE q[1] + Sum(Tail(q))

(***************************************************************************)
(* get_building_blocks(i, t, m): m is [t |-> "list", l |-> tokens] or a    *)
(* str key.                                                                *)
(***************************************************************************)
\* line 96
deciphered_dict_keys(l) ==
    [k \in 1..Len(l) |-> IF l[k] \in DOMAIN monomer_dict THEN monomer_dict[l[k]] ELSE l[k]]

\* line 100: int(x) raises for a one-character token that is no digit
explicit_coefs_raises(d) == \E k \in 1..Len(d) : Len(d[k]) = 1 /\ ~IsInt(d[k])

explicit_coefs(d) == [k \in 1..Len(d) |-> IF Len(d[k]) = 1 THEN IntOf(d[k]) ELSE 0]

\* lines 101-102
monomers_per_n(d) ==
    LET sum_implicit_coefs == Len(d) - Len(explicit_coefs(d))
    IN  Sum(explicit_coefs(d)) + sum_implicit_coefs

\* variant: the pending coefficient is not reset after use
repeat_step_noReset(acc, element) ==
    IF IsInt(element)
    THEN [repeat_unit |-> acc.repeat_unit, repeat_coef |-> IntOf(element)]
    ELSE [repeat_unit |-> acc.repeat_unit \o Repeat(acc.repeat_coef, element),
          repeat_coef |-> acc.repeat_coef]

\* lines 109-113, one pass of the loop body
repeat_step(acc, element) ==
    IF IsInt(element)
    THEN [repeat_unit |-> acc.repeat_unit, repeat_coef |-> IntOf(element)]
    ELSE [repeat_unit |-> acc.repeat_unit \o Repeat(acc.repeat_coef, element),
          repeat_coef |-> 1]

\* lines 105-113
RECURSIVE repeat_loop(_, _)
repeat_loop(acc, d) ==
    IF d = <<>> THEN acc ELSE repeat_loop(repeat_step(acc, d[1]), Tail(d))

repeat_unit_of_list(d) ==
    repeat_loop([repeat_unit |-> <<>>, repeat_coef |-> 1], d).repeat_unit

\* lines 94-116: the repeat unit and the monomer count, or the exception
resolve_repeat(m) ==
    IF m.t = "list"
    THEN LET d == deciphered_dict_keys(m.l)
         IN  IF explicit_coefs_raises(d)
             THEN [status |-> "ValueError", msg |-> "int"]
             ELSE [status |-> "ok",
                   repeat_unit |-> repeat_unit_of_list(d),
                   monomers_per_n |-> monomers_per_n(d)]
    ELSE LET r == monomer_smi_lookup(m.s)
         IN  IF r.status # "ok" THEN r
             ELSE [status |-> "ok", repeat_unit |-> r.value, monomers_per_n |-> 1]

\* the Mol objects of the initiator and the terminator are two objects
InitOid == 1
TermOid == 2

get_building_blocks(i, t, m) ==
    LET inators == inator_smi_lookup(i, t)
        r == resolve_repeat(m)
        init == validate_end_group(inators[1], TRUE, FALSE, InitOid)
        term == validate_end_group(inators[2], FALSE, TRUE, TermOid)
    IN  IF r.status # "ok" THEN r
        ELSE IF init.status # "ok" THEN init
        ELSE IF term.status # "ok" THEN term
        ELSE [status |-> "ok", init |-> init.value, term |-> term.value,
              repeat_unit |-> r.repeat_unit, monomers_per_n |-> r.monomers_per_n]

(***************************************************************************)
(* rdkit molecule operations used by attatch_frags.                        *)
(***************************************************************************)
Indices(m) == [k \in 1..Len(m.atoms) |-> k]

\* [a.GetIdx() for a in m.GetAtoms() if a.GetAtomicNum() == 0]
fake_atoms(m) == SelectSeq(Indices(m), LAMBDA k : m.atoms[k] = Marker)

\* atom.GetNeighbors(): the other ends of the atom's bonds, in bond order
GetNeighbors(m, a) ==
    LET inc == SelectSeq(m.bonds, LAMBDA b : b[1] = a \/ b[2] = a)
    IN  [k \in 1..Len(inc) |-> IF inc[k][1] = a THEN inc[k][2] ELSE inc[k][1]]

SetProp(m, a, note) == [m EXCEPT !.notes[a] = note]

\* Chem.CombineMols(m1, m2): the atoms of m1, then those of m2; a new object
CombineMols(m1, m2) ==
    LET off == Len(m1.atoms)
    IN  [t |-> "mol", id |-> 0,
         atoms |-> m1.atoms \o m2.atoms,
         bonds |-> m1.bonds \o [k \in 1..Len(m2.bonds) |->
                                  <<m2.bonds[k][1] + off, m2.bonds[k][2] + off>>],
         notes |-> m1.notes \o m2.notes]

AddBond(m, a, b) == [m EXCEPT !.bonds = Append(@, <<a, b>>)]

\* RWMol.RemoveAtom(a): the atom and its bonds go, later atoms move down by one
RemoveAtom(m, a) ==
    LET keep == SelectSeq(m.bonds, LAMBDA b : b[1] # a /\ b[2] # a)
        down(x) == IF x > a THEN x - 1 ELSE x
    IN  [m EXCEPT
           !.atoms = [k \in 1..(Len(m.atoms) - 1) |-> m.atoms[IF k >= a THEN k + 1 ELSE k]],
           !.notes = [k \in 1..(Len(m.notes) - 1) |-> m.notes[IF k >= a THEN k + 1 ELSE k]],
           !.bonds = [k \in 1..Len(keep) |-> <<down(keep[k][1]), down(keep[k][2])>>]]

\* Chem.MolToSmiles(m): the notation of the graph; it carries the atoms and
\* the bonds, not the atom notes nor the object's identity
MolToSmiles(m) ==
    [t |-> "smiles", atoms |-> m.atoms,
     bonds |-> {{m.bonds[k][1], m.bonds[k][2]} : k \in 1..Len(m.bonds)}]

\* a == b on two Python values of which a is a Mol: object identity
SameObject(a, b) == b.t = "mol" /\ a.id = b.id

Raise(exc, where) == [status |-> exc, msg |-> where]

(***************************************************************************)
(* attatch_frags(polymer_smiles, add_initiator, add_terminator); each      *)
(* keyword argument is <<flag, handle>>. The result carries the end-group  *)
(* objects as the call leaves them (SetProp changes them in place).        *)
(* The function is written as a chain of operators, each taking the values *)
(* the lines before it have computed.                                      *)
(***************************************************************************)
\* some placeholder of m has no neighbor: GetNeighbors()[0] raises IndexError
dangling_fake(m) ==
    \E k \in 1..Len(fake_atoms(m)) : GetNeighbors(m, fake_atoms(m)[k]) = <<>>

\* line 128
conn_atoms(pol) ==
    [k \in 1..Len(fake_atoms(pol)) |-> GetNeighbors(pol, fake_atoms(pol)[k])[1]]

\* lines 131-145: the chain with head and tail labelled, and the inators list
label_ends(pol, conn, add_initiator, add_terminator) ==
    IF add_initiator[1]
    THEN IF Len(conn) < 1 THEN Raise("IndexError", "conn_atoms")
         ELSE IF add_terminator[1]
         THEN IF Len(conn) < 2 THEN Raise("IndexError", "conn_atoms")
              ELSE [status |-> "ok",
                    pol |-> SetProp(SetProp(pol, conn[1], "head"), conn[2], "tail"),
                    inators |-> <<"init", "term">>]
         ELSE [status |-> "ok", pol |-> SetProp(pol, conn[1], "head"),
               inators |-> <<"init">>]
    ELSE IF add_terminator[1]
    THEN IF Len(conn) < 1 THEN Raise("IndexError", "conn_atoms")
         ELSE [status |-> "ok", pol |-> SetProp(pol, conn[1], "tail"),
               inators |-> <<"term">>]
    ELSE Raise("Exception", "Unknown combination of inators")

\* lines 162-170: the indices of the atoms of m that carry the note
with_note(m, note) == SelectSeq(Indices(m), LAMBDA k : m.notes[k] = note)

\* lines 173-175; fused lists the bonds made so far, each with the indices
\* AddBond was given and the sizes of the end group and of the merged object
fuse_bond(st, which, labelled, merged, bond_here, inator_attatchment) ==
    [st EXCEPT
       !.mergedrw = SetProp(AddBond(merged, bond_here, inator_attatchment),
                            inator_attatchment, "done"),
       !.bond_here = bond_here,
       !.fused = Append(@, [which |-> which, bond_here |-> bond_here,
                            inator_attatchment |-> inator_attatchment,
                            inator_atoms |-> Len(labelled.atoms),
                            merged_atoms |-> Len(merged.atoms)]),
       !.init = IF which = "init" THEN labelled ELSE @,
       !.term = IF which = "term" THEN labelled ELSE @]

\* lines 162-170: st.bond_here = 0 stands for the name not being bound yet
fuse_merged(st, which, labelled, merged, isInit, isTerm) ==
    IF with_note(merged, "attatch") = <<>> THEN Raise("IndexError", "inator_attatchment")
    ELSE IF isInit /\ with_note(merged, "head") = <<>> THEN Raise("IndexError", "head")
    ELSE IF isTerm /\ with_note(merged, "tail") = <<>> THEN Raise("IndexError", "tail")
    ELSE IF ~isInit /\ ~isTerm /\ st.bond_here = 0 THEN Raise("NameError", "bond_here")
    ELSE fuse_bond(st, which, labelled, merged,
                   IF isTerm THEN with_note(merged, "tail")[1]
                   ELSE IF isInit THEN with_note(merged, "head")[1]
                   ELSE st.bond_here,
                   with_note(merged, "attatch")[1])

\* lines 155-159
fuse_labelled(st, which, inator, labelled) ==
    fuse_merged(st, which, labelled, CombineMols(labelled, st.mergedrw),
                SameObject(inator, st.init0), SameObject(inator, st.term0))

\* lines 150-155
fuse_object(st, which, inator) ==
    IF inator.t # "mol" THEN Raise("AttributeError", "inator")
    ELSE IF dangling_fake(inator) THEN Raise("IndexError", "GetNeighbors")
    ELSE IF fake_atoms(inator) = <<>> THEN Raise("IndexError", "attatch")
    ELSE fuse_labelled(st, which, inator,
                       SetProp(inator, GetNeighbors(inator, fake_atoms(inator)[1])[1],
                               "attatch"))

\* lines 150-175, one pass of the loop: st holds mergedrw and the two
\* end-group objects; which names the list element the pass is for
fuse_inator(st, which) ==
    IF st.status # "ok" THEN st
    ELSE fuse_object(st, which, IF which = "init" THEN st.init ELSE st.term)

RECURSIVE fuse_loop(_, _)
fuse_loop(st, inators) ==
    IF inators = <<>> THEN st
    ELSE fuse_loop(fuse_inator(st, inators[1]), Tail(inators))

\* lines 177-183
RECURSIVE remove_dummies(_)
remove_dummies(m) ==
    IF fake_atoms(m) = <<>> THEN m
    ELSE remove_dummies(RemoveAtom(m, fake_atoms(m)[1]))

\* lines 177-186
attatch_finish(st) ==
    IF st.status # "ok" THEN st
    ELSE [status |-> "ok",
          smi |-> MolToSmiles(remove_dummies(st.mergedrw)),
          init |-> st.init, term |-> st.term, fused |-> st.fused]

\* lines 147-175
attatch_labelled(ends, add_initiator, add_terminator) ==
    IF ends.status # "ok" THEN ends
    ELSE attatch_finish(
           fuse_loop([status |-> "ok", mergedrw |-> ends.pol, bond_here |-> 0,
                      fused |-> <<>>,
                      init |-> add_initiator[2], term |-> add_terminator[2],
                      init0 |-> add_initiator[2], term0 |-> add_terminator[2]],
                     ends.inators))

\* lines 125-145
attatch_parsed(pol, add_initiator, add_terminator) ==
    IF pol.t # "mol" THEN Raise("AttributeError", "pol")
    ELSE IF dangling_fake(pol) THEN Raise("IndexError", "GetNeighbors")
    ELSE attatch_labelled(label_ends(pol, conn_atoms(pol), add_initiator, add_terminator),
                          add_initiator, add_terminator)

attatch_frags(polymer_smiles, add_initiator, add_terminator) ==
    attatch_parsed(MolFromSmiles(polymer_smiles, 0), add_initiator, add_terminator)

(***************************************************************************)
(* add_inator_smiles(smi, init, term). The result carries, besides the     *)
(* notation, the end-group objects as the call leaves them and a record of *)
(* the call (builds): its inputs, the attatch_frags invocation it made, if *)
(* any, and the bonds that invocation made (fused).                        *)
(***************************************************************************)
\* lines 192-208: the notation after both ends are spliced or marked
spliced(smi, init, term) ==
    (IF init.t # "str" THEN <<Marker>> ELSE init.s)
        \o smi
        \o (IF term.t # "str" THEN <<Marker>> ELSE term.s)

add_inator_outcome(smi, init, term, r) ==
    [status |-> r.status,
     msg |-> IF r.status = "ok" THEN "" ELSE r.msg,
     smi |-> IF r.status = "ok" THEN r.smi ELSE NoneVal,
     init |-> IF r.status = "ok" THEN r.init ELSE init,
     term |-> IF r.status = "ok" THEN r.term ELSE term,
     builds |-> <<[body |-> smi, init |-> init, term |-> term,
                   polymer_smiles |-> spliced(smi, init, term),
                   add_initiator |-> init.t # "str",
                   add_terminator |-> term.t # "str",
                   invoked |-> (term.t # "str" \/ init.t # "str"),
                   status |-> r.status,
                   fused |-> IF r.status = "ok" THEN r.fused ELSE <<>>,
                   smi |-> IF r.status = "ok" THEN r.smi ELSE NoneVal]>>]

add_inator_smiles(smi, init, term) ==
    add_inator_outcome(smi, init, term,
        IF term.t # "str" \/ init.t # "str"
        THEN attatch_frags(spliced(smi, init, term),
                           <<init.t # "str", init>>, <<term.t # "str", term>>)
        ELSE [status |-> "ok", smi |-> Str(spliced(smi, init, term)),
              init |-> init, term |-> term, fused |-> <<>>])

(***************************************************************************)
(* createPolymerSMILES(i, n, r, t, *, test). builds lists the              *)
(* add_inator_smiles calls it made, in order.                              *)
(***************************************************************************)
\* lines 230-235
create_result(b, preview, full) ==
    IF full.status # "ok"
    THEN [status |-> full.status, msg |-> full.msg,
          builds |-> preview.builds \o full.builds]
    ELSE [status |-> "ok", test_smi |-> preview.smi, full_smiles |-> full.smi,
          m_per_n |-> b.monomers_per_n, builds |-> preview.builds \o full.builds]

\* line 228
create_full(b, n, preview) ==
    IF preview.status # "ok"
    THEN [status |-> preview.status, msg |-> preview.msg, builds |-> preview.builds]
    ELSE create_result(b, preview,
             add_inator_smiles(Repeat(n, b.repeat_unit), preview.init, preview.term))

\* lines 220-226
create_from_blocks(b, n, test) ==
    IF b.status # "ok" THEN [status |-> b.status, msg |-> b.msg, builds |-> <<>>]
    ELSE create_full(b, n,
             IF test
             THEN add_inator_smiles(b.repeat_unit, b.init, b.term)
             ELSE [status |-> "ok", smi |-> NoneVal, init |-> b.init,
                   term |-> b.term, builds |-> <<>>])

createPolymerSMILES(i, n, r, t, test) ==
    create_from_blocks(get_building_blocks(i, t, r), n, test)

(***************************************************************************)
(* getRepeatUnit(single, super): an argument is None or a str or a list.   *)
(***************************************************************************)
\* filter(None, ...) keeps the values that are true: non-empty str and list
Truthy(v) == (v.t = "str" /\ v.s # <<>>) \/ (v.t = "list" /\ v.l # <<>>)

\* variant: the two forms are tested for truth, not for None
getRepeatUnit_truthTest(single, super) ==
    IF Truthy(single) /\ Truthy(super)
    THEN Raise("TypeError", "Cannot specify both single and super monomers")
    ELSE IF Truthy(single) THEN [status |-> "ok", value |-> single]
    ELSE IF Truthy(super) THEN [status |-> "ok", value |-> super]
    ELSE Raise("IndexError", "filter")

getRepeatUnit(single, super) ==
    IF single.t # "none" /\ super.t # "none"
    THEN Raise("TypeError", "Cannot specify both single and super monomers")
    ELSE IF Truthy(single) THEN [status |-> "ok", value |-> single]
    ELSE IF Truthy(super) THEN [status |-> "ok", value |-> super]
    ELSE Raise("IndexError", "filter")

(***************************************************************************)
(* rdkit in optPol and confirmStructure: Chem.MolFromSmiles returns None   *)
(* for notation that does not parse or whose atoms exceed their valence.   *)
(***************************************************************************)
Valence == ("C" :> 4) @@ ("O" :> 2)

NotationAtoms(s) == IF s.t = "str" THEN s.s ELSE s.atoms

NotationDegree(s, k) ==
    IF s.t = "str"
    THEN (IF k > 1 THEN 1 ELSE 0) + (IF k < Len(s.s) THEN 1 ELSE 0)
    ELSE Cardinality({b \in s.bonds : k \in b})

Sanitizes(s) ==
    /\ s.t = "str" => Parses(s.s)
    /\ \A k \in 1..Len(NotationAtoms(s)) :
         NotationAtoms(s)[k] \in DOMAIN Valence
            => NotationDegree(s, k) <= Valence[NotationAtoms(s)[k]]

\* what optPol returns for the notation: the hydrogen-explicit 3D structure
\* and the 2D structure
pol_h_of(s) == [kind |-> "3D", smiles |-> s]
pol_of(s) == [kind |-> "2D", smiles |-> s]

(***************************************************************************)
(* main for one run of run_list, and make_One_or_More_Polymers,            *)
(* confirmStructure and optPol below it.                                   *)
(***************************************************************************)
DriverIdle ==
    /\ repeat_unit = NoneVal
    /\ j = 0
    /\ proceed = FALSE
    /\ full_smi = NoneVal
    /\ test_smi = NoneVal
    /\ m_per_n = -1
    /\ POL_LIST = <<>>
    /\ SMI_LIST = <<>>
    /\ Unopt_pols = <<>>
    /\ calls = <<>>
    /\ files = {}
    /\ legends = <<>>
    /\ plotN = <<>>

\* the values of vardict: read, draw and calculation stand for the option
\* being given (not None)
SingleMonomers == {NoneVal, Str(KeyA), Str(<<"C", "C">>)}
SuperMonomers ==
    {NoneVal, [t |-> "list", l |-> <<>>], [t |-> "list", l |-> <<(<<"2">>), KeyA, KeyB>>],
     [t |-> "list", l |-> <<(<<"C", Marker>>)>>]}

Vardicts ==
    [read : {FALSE}, single_monomer : SingleMonomers, super_monomer : SuperMonomers,
     initiator : {KeyH, <<Marker, "O">>}, terminator : {KeyH, <<"C", "O">>, <<"O", Marker>>},
     n : 1..MaxFamily, plot : BOOLEAN, quiet : BOOLEAN,
     draw : BOOLEAN, verbose : {FALSE}, calculation : BOOLEAN]
    \cup
    [read : {TRUE}, single_monomer : {NoneVal}, super_monomer : {NoneVal},
     initiator : {KeyH}, terminator : {KeyH},
     n : {1}, plot : BOOLEAN, quiet : {TRUE},
     draw : {FALSE}, verbose : BOOLEAN, calculation : {FALSE}]

\* variant: the quiet option is ignored
confirm_always == TRUE

confirm == ~args.quiet

Raised(exc, where) ==
    /\ pc' = "raised"
    /\ ret' = Raise(exc, where)

\* main with a run_list of one run (no --json file), after getArgs
Init ==
    /\ args \in Vardicts
    /\ pc = IF args.read THEN "read" ELSE "getRepeatUnit"
    /\ ret = NoneVal
    /\ DriverIdle

\* line 484
MainGetRepeatUnit ==
    /\ pc = "getRepeatUnit"
    /\ LET r == getRepeatUnit(args.single_monomer, args.super_monomer)
       IN  IF r.status = "ok"
           THEN pc' = "make" /\ repeat_unit' = r.value /\ UNCHANGED ret
           ELSE Raised(r.status, r.msg) /\ UNCHANGED repeat_unit
    /\ UNCHANGED <<args, j, proceed, full_smi, test_smi, m_per_n,
                   POL_LIST, SMI_LIST, Unopt_pols, calls, files, legends, plotN>>

\* lines 492-495: the structure comes from a file
MainRead ==
    /\ pc = "read"
    /\ IF args.plot
       THEN Raised("TypeError", "You may not plot data read from a file.")
       ELSE \/ pc' = "draw" /\ UNCHANGED ret
            \/ Raised("FileNotFoundError", "read")
    /\ UNCHANGED <<args, dvars>>

\* lines 291-303
MakeEnter ==
    /\ pc = "make"
    /\ POL_LIST' = <<>>
    /\ SMI_LIST' = <<>>
    /\ Unopt_pols' = <<>>
    /\ IF args.plot
       THEN pc' = "family_loop" /\ j' = 1 /\ proceed' = ~confirm
       ELSE pc' = "single_build" /\ UNCHANGED <<j, proceed>>
    /\ UNCHANGED <<args, ret, repeat_unit, full_smi, test_smi, m_per_n,
                   calls, files, legends, plotN>>

\* variant: the range starts at 0
N_array_fromZero(n) == [k \in 1..n |-> k - 1]

\* variant: the lengths are visited from n down to 1
N_array_descending(n) == [k \in 1..n |-> n + 1 - k]

\* line 296
N_array(n) == [k \in 1..n |-> k]

\* lines 304-311: one pass of the loop up to the confirmation or to optPol
FamilyBuild ==
    /\ pc = "family_loop"
    /\ j <= Len(N_array(args.n))
    /\ LET len == N_array(args.n)[j]
           first == (len = 1 /\ confirm /\ ~proceed)
           second == (len > 1 \/ ~confirm)
           r == createPolymerSMILES(args.initiator, len, repeat_unit,
                                    args.terminator, first)
       IN  IF first \/ second
           THEN /\ calls' = Append(calls, <<"createPolymerSMILES", len>>)
                /\ IF r.status = "ok"
                   THEN /\ full_smi' = r.full_smiles
                        /\ test_smi' = IF first THEN r.test_smi ELSE test_smi
                        /\ m_per_n' = r.m_per_n
                        /\ pc' = IF first THEN "confirm" ELSE "optPol"
                        /\ UNCHANGED ret
                   ELSE /\ Raised(r.status, r.msg)
                        /\ UNCHANGED <<full_smi, test_smi, m_per_n>>
           ELSE /\ IF full_smi = NoneVal
                   THEN Raised("UnboundLocalError", "smi")
                   ELSE pc' = "optPol" /\ UNCHANGED ret
                /\ UNCHANGED <<full_smi, test_smi, m_per_n, calls>>
    /\ UNCHANGED <<args, repeat_unit, j, proceed,
                   POL_LIST, SMI_LIST, Unopt_pols, files, legends, plotN>>

\* line 321
FamilyReturn ==
    /\ pc = "family_loop"
    /\ j > Len(N_array(args.n))
    /\ IF m_per_n = -1
       THEN Raised("UnboundLocalError", "m_per_n")
       ELSE pc' = "draw" /\ UNCHANGED ret
    /\ UNCHANGED <<args, dvars>>

\* lines 323-330
SingleBuild ==
    /\ pc = "single_build"
    /\ LET r == createPolymerSMILES(args.initiator, args.n, repeat_unit,
                                    args.terminator, TRUE)
       IN  /\ calls' = Append(calls, <<"createPolymerSMILES", args.n>>)
           /\ IF r.status = "ok"
              THEN /\ full_smi' = r.full_smiles
                   /\ test_smi' = r.test_smi
                   /\ m_per_n' = r.m_per_n
                   /\ pc' = IF confirm THEN "confirm" ELSE "optPol"
                   /\ UNCHANGED ret
              ELSE /\ Raised(r.status, r.msg)
                   /\ UNCHANGED <<full_smi, test_smi, m_per_n>>
    /\ UNCHANGED <<args, repeat_unit, j, proceed,
                   POL_LIST, SMI_LIST, Unopt_pols, files, legends, plotN>>

\* lines 266-272: confirmStructure up to the prompt
ConfirmShow ==
    /\ pc = "confirm"
    /\ calls' = Append(calls, <<"confirmStructure", 1>>)
    /\ IF Sanitizes(test_smi)
       THEN pc' = "prompt" /\ files' = files \cup {"confirm.png"} /\ UNCHANGED ret
       ELSE Raised("ArgumentError", "drawPol") /\ UNCHANGED files
    /\ UNCHANGED <<args, repeat_unit, j, proceed, full_smi, test_smi, m_per_n,
                   POL_LIST, SMI_LIST, Unopt_pols, legends, plotN>>

Answers == {<<"y">>, <<"Y">>, <<>>, <<"n">>}

\* inp.lower() == "y" or inp == ""
Affirmative(inp) == inp \in {<<"y">>, <<"Y">>, <<>>}

\* lines 272-289 and the caller's assignment at line 308
ConfirmAnswer ==
    /\ pc = "prompt"
    /\ files' = files \ {"confirm.png"}
    /\ \E inp \in Answers :
         IF Affirmative(inp)
         THEN /\ pc' = "optPol"
              /\ proceed' = IF args.plot THEN TRUE ELSE proceed
         ELSE /\ pc' = "quit"
              /\ UNCHANGED proceed
    /\ UNCHANGED <<args, ret, repeat_unit, j, full_smi, test_smi, m_per_n,
                   POL_LIST, SMI_LIST, Unopt_pols, calls, legends, plotN>>

\* lines 237-256: parse, sanitize, embed and minimize; embedding may yield
\* no conformer, and then best[0] raises
OptEmbed ==
    /\ pc = "optPol"
    /\ calls' = Append(calls, <<"optPol", IF args.plot THEN j ELSE args.n>>)
    /\ IF ~Sanitizes(full_smi)
       THEN Raised("ArgumentError", "SanitizeMol")
       ELSE \/ pc' = "opt_write" /\ UNCHANGED ret
            \/ Raised("IndexError", "best")
    /\ UNCHANGED <<args, repeat_unit, j, proceed, full_smi, test_smi, m_per_n,
                   POL_LIST, SMI_LIST, Unopt_pols, files, legends, plotN>>

\* line 257: Chem.MolToMolFile creates tmp.mol; it may fail before or after
\* the file is there
OptWrite ==
    /\ pc = "opt_write"
    /\ \/ pc' = "opt_read" /\ files' = files \cup {"tmp.mol"} /\ UNCHANGED ret
       \/ Raised("OSError", "MolToMolFile") /\ files' = files \cup {"tmp.mol"}
       \/ Raised("OSError", "MolToMolFile") /\ UNCHANGED files
    /\ UNCHANGED <<args, repeat_unit, j, proceed, full_smi, test_smi, m_per_n,
                   POL_LIST, SMI_LIST, Unopt_pols, calls, legends, plotN>>

\* line 258: Chem.MolFromMolFile reads it back, or raises
OptRead ==
    /\ pc = "opt_read"
    /\ \/ pc' = "opt_remove" /\ UNCHANGED ret
       \/ Raised("OSError", "MolFromMolFile")
    /\ UNCHANGED <<args, dvars>>

\* lines 259-264, and the caller's lines 317-320 or 332-333
OptRemove ==
    /\ pc = "opt_remove"
    /\ files' = files \ {"tmp.mol"}
    /\ IF args.plot
       THEN /\ POL_LIST' = Append(POL_LIST, pol_h_of(full_smi))
            /\ SMI_LIST' = Append(SMI_LIST, full_smi)
            /\ Unopt_pols' = Append(Unopt_pols, pol_of(full_smi))
            /\ j' = j + 1
            /\ pc' = "family_loop"
       ELSE /\ pc' = "draw"
            /\ UNCHANGED <<POL_LIST, SMI_LIST, Unopt_pols, j>>
    /\ UNCHANGED <<args, ret, repeat_unit, proceed, full_smi, test_smi, m_per_n,
                   calls, legends, plotN>>

\* drawPol, lines 336-339: the legends of the grid image
drawPol_legends(pol, mpn) == [k \in 1..Len(pol) |-> k * mpn]

\* main, lines 509-520
MainDraw ==
    /\ pc = "draw"
    /\ IF args.draw \/ args.verbose
       THEN IF m_per_n = -1
            THEN Raised("NameError", "M_PER_N") /\ UNCHANGED legends
            ELSE /\ pc' = "calc"
                 /\ legends' = IF args.plot THEN drawPol_legends(Unopt_pols, m_per_n)
                               ELSE <<>>
                 /\ UNCHANGED ret
       ELSE pc' = "calc" /\ UNCHANGED <<ret, legends>>
    /\ UNCHANGED <<args, repeat_unit, j, proceed, full_smi, test_smi, m_per_n,
                   POL_LIST, SMI_LIST, Unopt_pols, calls, files, plotN>>

\* makePlot, lines 433-438: the "N" entry of each structure's data
makePlot_N(pol_list, mpn) == [k \in 1..Len(pol_list) |-> k * mpn]

\* main, lines 523-543
MainCalc ==
    /\ pc = "calc"
    /\ IF args.calculation
       THEN IF m_per_n = -1
            THEN Raised("NameError", "M_PER_N") /\ UNCHANGED plotN
            ELSE /\ pc' = "done"
                 /\ plotN' = IF args.plot THEN makePlot_N(POL_LIST, m_per_n)
                             ELSE <<args.n * m_per_n>>
                 /\ UNCHANGED ret
       ELSE pc' = "done" /\ UNCHANGED <<ret, plotN>>
    /\ UNCHANGED <<args, repeat_unit, j, proceed, full_smi, test_smi, m_per_n,
                   POL_LIST, SMI_LIST, Unopt_pols, calls, files, legends>>

Next ==
    \/ MainGetRepeatUnit
    \/ MainRead
    \/ MakeEnter
    \/ FamilyBuild
    \/ FamilyReturn
    \/ SingleBuild
    \/ ConfirmShow
    \/ ConfirmAnswer
    \/ OptEmbed
    \/ OptWrite
    \/ OptRead
    \/ OptRemove
    \/ MainDraw
    \/ MainCalc

Spec == Init /\ [][Next]_vars

\* C6: when both the single-monomer and the multi-monomer form are given
\* (not None), getRepeatUnit raises TypeError, and the run has done no
\* structural work by then
C6_BothFormsTypeError ==
    (/\ ~args.read
     /\ args.single_monomer.t # "none" /\ args.super_monomer.t # "none"
     /\ pc # "getRepeatUnit")
        => /\ pc = "raised"
           /\ ret.status = "TypeError"
           /\ calls = <<>>
           /\ POL_LIST = <<>> /\ SMI_LIST = <<>> /\ Unopt_pols = <<>>
           /\ full_smi = NoneVal /\ test_smi = NoneVal
           /\ files = {}

C6_Witness ==
    /\ pc = "raised"
    /\ ret.status = "TypeError"
    /\ args.single_monomer = Str(KeyA)
    /\ args.super_monomer = [t |-> "list", l |-> <<>>]

\* make_One_or_More_Polymers has returned to main
MakeReturned == pc \in {"draw", "calc", "done"} /\ ~args.read

\* the chain notation for length k, built on its own
ChainOfLength(k) ==
    createPolymerSMILES(args.initiator, k, repeat_unit, args.terminator, FALSE).full_smiles

Fragments == StringsUpTo(AtomChars \cup {Marker}, MaxInatorLen)
               \cup {<<Marker, BadChar>>, <<BadChar, Marker>>, <<"C", BadChar>>}

InitValidate ==
    /\ pc = "call"
    /\ args \in [inator : Fragments, Init : BOOLEAN, Term : BOOLEAN]
    /\ ret = NoneVal
    /\ DriverIdle

CallValidate ==
    /\ pc = "call"
    /\ ret' = validate_end_group(args.inator, args.Init, args.Term, 1)
    /\ pc' = "returned"
    /\ UNCHANGED <<args, dvars>>

NextValidate == CallValidate

SpecValidate == InitValidate /\ [][NextValidate]_vars

(***************************************************************************)
(* SpecBlocks: get_building_blocks applied to token lists and single keys. *)
(***************************************************************************)
Tokens == {<<"2">>, <<"3">>, <<"0">>, <<"1", "2">>, KeyA, KeyB, <<"C", Marker>>, <<"O">>}

RECURSIVE ListsUpTo(_, _)
ListsUpTo(S, len) ==
    IF len = 0 THEN {<<>>}
    ELSE LET shorter == ListsUpTo(S, len - 1)
         IN  shorter \cup {Append(l, x) : l \in shorter, x \in S}

TokenLists == ListsUpTo(Tokens, MaxTokens) \ {<<>>}

RepeatSpecs ==
    {[t |-> "list", l |-> l] : l \in TokenLists}
        \cup {Str(KeyA), Str(<<"C", "C">>)}

BlocksInitiators == {KeyH, <<"C", "O">>, <<Marker, "O">>}
BlocksTerminators == {KeyH, <<"O", Marker>>}

InitBlocks ==
    /\ pc = "call"
    /\ args \in [i : BlocksInitiators, t : BlocksTerminators, m : RepeatSpecs]
    /\ ret = NoneVal
    /\ DriverIdle

CallBlocks ==
    /\ pc = "call"
    /\ ret' = get_building_blocks(args.i, args.t, args.m)
    /\ pc' = "returned"
    /\ UNCHANGED <<args, dvars>>

NextBlocks == CallBlocks

SpecBlocks == InitBlocks /\ [][NextBlocks]_vars

\* the token as the specification resolves it: lookup-or-literal
Resolved(tok) == IF tok \in DOMAIN monomer_dict THEN monomer_dict[tok] ELSE tok

\* the multiplier the specification applies to the token at position k: the
\* integer token immediately before it, 1 when none is there
MultiplierAt(l, k) == IF k > 1 /\ IsInt(l[k - 1]) THEN IntOf(l[k - 1]) ELSE 1

NonNumericPositions(l) == {k \in 1..Len(l) : ~IsInt(l[k])}

RECURSIVE SumOver(_, _)
SumOver(S, f) ==
    IF S = {} THEN 0
    ELSE LET k == CHOOSE x \in S : TRUE IN f[k] + SumOver(S \ {k}, f)

SpecifiedCount(l) ==
    SumOver(NonNumericPositions(l), [k \in 1..Len(l) |-> MultiplierAt(l, k)])

RECURSIVE SpecifiedFragmentFrom(_, _)
SpecifiedFragmentFrom(l, k) ==
    IF k > Len(l) THEN <<>>
    ELSE (IF IsInt(l[k]) THEN <<>> ELSE Repeat(MultiplierAt(l, k), Resolved(l[k])))
             \o SpecifiedFragmentFrom(l, k + 1)

\* every integer token of the list is followed by a non-numeric token
EveryMultiplierApplied(l) ==
    \A k \in 1..Len(l) : IsInt(l[k]) => (k < Len(l) /\ ~IsInt(l[k + 1]))

\* C4: for a token list the monomers-per-repeat count is the sum of the
\* multipliers applied to the non-numeric tokens, an omitted one counting 1
C4_CountIsSumOfMultipliers ==
    (/\ pc = "returned" /\ args.m.t = "list" /\ ret.status = "ok"
     /\ EveryMultiplierApplied(args.m.l))
        => ret.monomers_per_n = SpecifiedCount(args.m.l)

\* every integer token of the list is positive
AllMultipliersPositive(l) == \A k \in 1..Len(l) : IsInt(l[k]) => IntOf(l[k]) > 0

\* C5: for a token list the repeat fragment is the in-order concatenation of
\* the resolved non-numeric tokens, each repeated by the positive integer
\* token right before it, or once when none is there
C5_FragmentIsConcatenation ==
    (/\ pc = "returned" /\ args.m.t = "list" /\ ret.status = "ok"
     /\ AllMultipliersPositive(args.m.l))
        => ret.repeat_unit = SpecifiedFragmentFrom(args.m.l, 1)

\* `2 A B` resolves to fragment(A) + fragment(A) + fragment(B)
C5_Witness ==
    /\ pc = "returned"
    /\ args.m = [t |-> "list", l |-> <<(<<"2">>), KeyA, KeyB>>]
    /\ ret.status = "ok"
    /\ ret.repeat_unit = monomer_dict[KeyA] \o monomer_dict[KeyA] \o monomer_dict[KeyB]

(***************************************************************************)
(* SpecChain: createPolymerSMILES applied to end groups and repeat units   *)
(* with and without markers, for each chain length, with and without the   *)
(* preview build.                                                          *)
(***************************************************************************)
ChainInators ==
    StringsUpTo(AtomChars \cup {Marker}, MaxEndLen)
        \cup {KeyH, KeyE, <<Marker, BadChar>>, <<Marker, "C", "O">>, <<"O", "C", Marker>>}

ChainRepeats ==
    {[t |-> "list", l |-> <<u>>] :
        u \in {x \in StringsUpTo({"C", Marker}, MaxUnitLen) : Contains(x, "C")}}
        \cup {[t |-> "list", l |-> <<(<<"2">>), KeyB>>], Str(KeyA), Str(KeyB)}

InitChain ==
    /\ pc = "call"
    /\ args \in [i : ChainInators, t : ChainInators, r : ChainRepeats,
                 n : 1..MaxN, test : BOOLEAN]
    /\ ret = NoneVal
    /\ DriverIdle

CallChain ==
    /\ pc = "call"
    /\ ret' = createPolymerSMILES(args.i, args.n, args.r, args.t, args.test)
    /\ pc' = "returned"
    /\ UNCHANGED <<args, dvars>>

NextChain == CallChain

SpecChain == InitChain /\ [][NextChain]_vars

\* the placeholder atoms of a notation: of spliced text, its marker
\* characters; of a serialized graph, its marker atoms
DummyCount(smi) ==
    IF smi.t = "str" THEN Len(SelectSeq(smi.s, LAMBDA c : c = Marker))
    ELSE Len(SelectSeq(smi.atoms, LAMBDA c : c = Marker))

\* the bonds of a linear fragment that join two atoms that are no placeholder
RealBonds(s) == Cardinality({k \in 1..(Len(s) - 1) : s[k] # Marker /\ s[k + 1] # Marker})

\* the end-group fragments the run resolves to
InitFragment == inator_smi_lookup(args.i, args.t)[1]
TermFragment == inator_smi_lookup(args.i, args.t)[2]

\* the end needs structural fusion: its chain-facing character is the marker
InitNeedsFusion == InitFragment # <<>> /\ InitFragment[1] = Marker
TermNeedsFusion == TermFragment # <<>> /\ TermFragment[Len(TermFragment)] = Marker

\* C1: with an end group that needs structural fusion (and a chain body of
\* real atoms only), add_inator_smiles invokes attatch_frags, and the
\* structure it serializes has no placeholder atom and, next to the disjoint
\* union of the body and the fused end groups without their placeholders,
\* exactly one new bond per fused end
C1_FusionOneBondPerEnd ==
    (pc = "returned" /\ (InitNeedsFusion \/ TermNeedsFusion))
        => \A k \in 1..Len(ret.builds) :
             LET b == ret.builds[k]
             IN  (b.body # <<>> /\ ~Contains(b.body, Marker))
                 => /\ b.invoked
                    /\ b.status = "ok"
                        => /\ DummyCount(b.smi) = 0
                           /\ Cardinality(b.smi.bonds)
                                = RealBonds(b.body)
                                  + (IF InitNeedsFusion THEN RealBonds(InitFragment) + 1 ELSE 0)
                                  + (IF TermNeedsFusion THEN RealBonds(TermFragment) + 1 ELSE 0)

\* C2: the chain createPolymerSMILES returns has no placeholder atom, for
\* every repeat specification (monomers with markers included), on the
\* string fast path and on the structural fusion path
C2_NoPlaceholderLeft ==
    (pc = "returned" /\ ret.status = "ok") => DummyCount(ret.full_smiles) = 0

\* C3: attatch_frags is invoked if and only if at least one validator result
\* is a parsed-structure handle; an invocation has a flag set, a structure
\* handle for each set flag, and never ends in the unknown-combination error
C3_FusionIffHandle ==
    pc = "returned"
        => \A k \in 1..Len(ret.builds) :
             LET b == ret.builds[k]
             IN  /\ b.invoked <=> (b.init.t = "mol" \/ b.term.t = "mol")
                 /\ b.invoked
                     => /\ b.add_initiator \/ b.add_terminator
                        /\ b.add_initiator => b.init.t = "mol"
                        /\ b.add_terminator => b.term.t = "mol"
                        /\ b.status # "Exception"

\* C7: a fragment that differs from its reversal and holds no marker fails
\* validation with the validation error, validated as initiator or as
\* terminator
C7_AsymmetricFails ==
    (/\ pc = "returned"
     /\ args.Init \/ args.Term
     /\ args.inator # Reverse(args.inator)
     /\ ~Contains(args.inator, Marker))
        => (ret.status = "ValueError" /\ ret.msg = "not palindromic")

C7_Witness ==
    /\ pc = "returned"
    /\ args.Term /\ ~args.Init
    /\ args.inator = <<"C", "O">>
    /\ ret.status = "ValueError"

\* C8: unless exactly one of the role flags Init, Term is set, the call
\* fails with the configuration error and returns no result
C8_ExactlyOneRole ==
    (pc = "returned" /\ args.Init = args.Term)
        => (ret.status = "ValueError" /\ ret.msg = "role")

\* the fragment without its marker characters, by recursion on its length
RECURSIVE WithoutMarkers(_)
WithoutMarkers(s) ==
    IF s = <<>> THEN <<>>
    ELSE IF s[1] = Marker THEN WithoutMarkers(Tail(s))
    ELSE <<s[1]>> \o WithoutMarkers(Tail(s))

\* C9: with one role flag set, a fragment whose chain-facing character is
\* not the marker and that passes validation is returned as plain text, the
\* input with every marker removed; unchanged when it holds no marker
C9_PlainTextStripped ==
    (/\ pc = "returned"
     /\ args.Init # args.Term
     /\ \/ args.inator = <<>>
        \/ args.inator[IF args.Init THEN 1 ELSE Len(args.inator)] # Marker
     /\ ret.status = "ok")
        => /\ ret.value.t = "str"
           /\ ret.value.s = WithoutMarkers(args.inator)
           /\ ~Contains(args.inator, Marker) => ret.value.s = args.inator

C9_Witness ==
    /\ pc = "returned"
    /\ args.Init /\ ~args.Term
    /\ args.inator = <<"C", Marker, "C">>
    /\ ret.status = "ok"
    /\ ret.value = Str(<<"C", "C">>)

(***************************************************************************)
(* The calls one run makes, in order (calls), and the files it leaves.     *)
(***************************************************************************)
CallPositions(name) == {k \in 1..Len(calls) : calls[k][1] = name}

\* C11: with confirmation enabled, in the single-length and in the family
\* mode, a rejected confirmation ends the run with no optPol call made, and
\* no call is made after the rejection
C11_RejectionBeforeOptPol ==
    /\ [](pc = "quit" => CallPositions("optPol") = {})
    /\ [][pc = "quit" => (pc' = "quit" /\ calls' = calls)]_vars

C11_Witness ==
    /\ pc = "quit"
    /\ args.plot /\ args.n = 3 /\ ~args.quiet
    /\ calls = <<(<<"createPolymerSMILES", 1>>), (<<"confirmStructure", 1>>)>>

\* C12: confirmStructure is called zero times in quiet mode and exactly once
\* in a call with confirmation that returns, for a single length and for a
\* family of any length N >= 1; in a family the one call comes right after
\* the build for n = 1, before any other call
C12_PromptOnceOrNever ==
    /\ args.quiet => CallPositions("confirmStructure") = {}
    /\ Cardinality(CallPositions("confirmStructure")) <= 1
    /\ (~args.quiet /\ MakeReturned)
          => Cardinality(CallPositions("confirmStructure")) = 1
    /\ args.plot =>
          \A k \in CallPositions("confirmStructure") :
              k = 2 /\ calls[1] = <<"createPolymerSMILES", 1>>

C12_Witness ==
    /\ pc = "done"
    /\ args.plot /\ args.n = 3 /\ ~args.quiet
    /\ Len(POL_LIST) = 3
    /\ CallPositions("confirmStructure") = {2}
    /\ Cardinality(CallPositions("optPol")) = 3

\* C13: tmp.mol does not exist once optPol is left, whether optPol returned
\* or raised while writing or re-reading the file
C13_TmpFileRemoved ==
    pc \notin {"opt_read", "opt_remove"} => "tmp.mol" \notin files

\* both end groups of the call pass validate_end_group
EndGroupsAccepted ==
    /\ validate_end_group(inator_smi_lookup(args.i, args.t)[1], TRUE, FALSE, InitOid).status = "ok"
    /\ validate_end_group(inator_smi_lookup(args.i, args.t)[2], FALSE, TRUE, TermOid).status = "ok"

\* C14 as stated: a single key is resolved by lookup-or-literal (the table
\* fragment for a key of the monomer table, the key itself otherwise), with
\* monomers-per-repeat = 1 in both cases
C14_SingleKeyLookupOrLiteral ==
    (pc = "returned" /\ args.m.t = "str" /\ EndGroupsAccepted)
        => /\ ret.status = "ok"
           /\ ret.repeat_unit = Resolved(args.m.s)
           /\ ret.monomers_per_n = 1

\* C14 amended: a single key is resolved by table lookup alone: for a key of
\* the monomer table the table fragment with monomers-per-repeat = 1, for
\* any other string a KeyError and no result
C14_SingleKeyLookupOnly ==
    (pc = "returned" /\ args.m.t = "str")
        => IF args.m.s \in DOMAIN monomer_dict
           THEN /\ ret.status # "KeyError"
                /\ EndGroupsAccepted
                     => /\ ret.status = "ok"
                        /\ ret.repeat_unit = monomer_dict[args.m.s]
                        /\ ret.monomers_per_n = 1
           ELSE ret.status = "KeyError"

C14_Witness ==
    /\ pc = "returned"
    /\ args.m = Str(<<"C", "C">>)
    /\ args.i = KeyH /\ args.t = KeyH
    /\ ret.status = "KeyError"

\* the end-group handle has exactly one placeholder atom
OneAttachmentPoint(h) == h.t = "mol" => Len(fake_atoms(h)) = 1

\* the end groups attatch_frags is to fuse in the build, in the order the
\* claim gives
FusionOrder(b) ==
    (IF b.add_initiator THEN <<"init">> ELSE <<>>)
        \o (IF b.add_terminator THEN <<"term">> ELSE <<>>)

\* the chain with its boundary placeholders, as attatch_frags parses it
ChainMol(b) == MolFromSmiles(b.polymer_smiles, 0)

\* the bond f joins the end group's attachment atom (the neighbor of its
\* placeholder) to the chain atom next to the leading placeholder for the
\* initiator, next to the trailing placeholder for the terminator; the chain
\* atoms are the last atoms of the merged object
RightPair(b, f) ==
    LET pol == ChainMol(b)
        h == IF f.which = "init" THEN b.init ELSE b.term
        chain_atom == f.bond_here - (f.merged_atoms - Len(pol.atoms))
    IN  /\ f.inator_atoms = Len(h.atoms)
        /\ f.inator_attatchment = GetNeighbors(h, fake_atoms(h)[1])[1]
        /\ chain_atom = IF f.which = "init"
                        THEN GetNeighbors(pol, 1)[1]
                        ELSE GetNeighbors(pol, Len(pol.atoms))[1]

\* the chain atom next to each boundary placeholder is a real atom
BoundaryOnRealAtoms(b) ==
    /\ b.body # <<>>
    /\ b.add_initiator => b.body[1] # Marker
    /\ b.add_terminator => b.body[Len(b.body)] # Marker

\* C15: in every attatch_frags invocation of a createPolymerSMILES call (the
\* preview build and the full build, on the same end-group handles), with
\* end groups of one attachment point each and real chain atoms at the
\* fused ends, the end groups are fused initiator first, then terminator,
\* and each new bond joins the end group's attachment atom to the chain's
\* head atom (initiator) or tail atom (terminator)
C15_BondsJoinRightAtoms ==
    pc = "returned"
        => \A k \in 1..Len(ret.builds) :
             LET b == ret.builds[k]
             IN  (/\ b.invoked /\ b.status = "ok"
                  /\ OneAttachmentPoint(b.init) /\ OneAttachmentPoint(b.term)
                  /\ BoundaryOnRealAtoms(b))
                     => /\ [q \in 1..Len(b.fused) |-> b.fused[q].which] = FusionOrder(b)
                        /\ \A q \in 1..Len(b.fused) : RightPair(b, b.fused[q])


====
